---- MODULE Spec2Model ----
(***************************************************************************)
(* numcmp: comparison of two numeric samples by bootstrap resampling.      *)
(*                                                                         *)
(* The module models src/main.rs: the interpolated quantile                *)
(* (get_quantile), the estimator registry built in main, the simulation    *)
(* loop (simulate), the summaries (summarize_numbers) and the run of main. *)
(*                                                                         *)
(* Numbers.  The program computes in f64 (IEEE-754 binary64, 53            *)
(* significant bits, round to nearest, ties to even).  The model keeps     *)
(* the same arithmetic with Prec significant bits: an f64 is an integer    *)
(* count of units of 2^-FracBits, and every arithmetic result is rounded   *)
(* to Prec significant bits, ties to even.  FracBits is large enough that  *)
(* no result of the modelled computations falls below the unit, so the     *)
(* only difference with binary64 is the number of significant bits.        *)
(***************************************************************************)
EXTENDS Integers, Sequences, FiniteSets, TLC

\* ------------------------------------------------------------------ bounds
\* Significant bits of the modelled floating-point format.
Prec == 6
\* Largest length of a sample given to get_quantile.
MaxLen == 3
\* Sample values given to get_quantile are the integers 0..MaxVal.
MaxVal == 7
\* Largest length of the baseline and target given to simulate and to main.
SimMaxLen == 2
\* The baseline and target values are the integers 1..SimMaxVal.
SimMaxVal == 2
\* Largest iteration count given to simulate.
MaxIter == 2
\* Largest iteration count given to a whole run of main.
MainMaxIter == 1

\* ---------------------------------------------------------- f64 arithmetic
FracBits == Prec + 1
\* The f64 1.0.
One == 2 ^ FracBits

RECURSIVE Scale(_, _, _)
\* The weight of the last kept bit of n/d: the least power of two s with
\* n/d < s * 2^Prec.
Scale(n, d, s) == IF n < d * s * (2 ^ Prec) THEN s ELSE Scale(n, d, 2 * s)

\* n/dd rounded to the nearest integer, ties to the even one (n >= 0).
RoundHalfEven(n, dd) ==
    LET qq == n \div dd
        r  == n % dd
    IN  IF 2 * r < dd THEN qq
        ELSE IF 2 * r > dd THEN qq + 1
        ELSE IF qq % 2 = 0 THEN qq ELSE qq + 1

\* The rational n/d (in units) rounded to Prec significant bits.
F64RoundAbs(n, d) ==
    LET s == Scale(n, d, 1)
    IN  RoundHalfEven(n, d * s) * s

F64Round(n, d) == IF n < 0 THEN 0 - F64RoundAbs(0 - n, d) ELSE F64RoundAbs(n, d)

F64Add(a, b) == F64Round(a + b, 1)
F64Sub(a, b) == F64Round(a - b, 1)
F64Mul(a, b) == F64Round(a * b, One)
\* a / b for b # 0.
F64Div(a, b) == IF b < 0 THEN F64Round((0 - a) * One, 0 - b) ELSE F64Round(a * One, b)
\* Rounding up where the code rounds down.
F64Floor_Ceil(a) == ((a + One - 1) \div One) * One

\* f64::floor.
F64Floor(a) == (a \div One) * One
\* `n as f64` for a usize n (exact for the lengths of the model).
UsizeToF64(n) == n * One
\* `x as usize` for an integral, non-negative f64 x.
F64ToUsize(a) == a \div One
\* The f64 nearest to the decimal literal num/den.
F64Lit(num, den) == F64Round(num * One, den)
\* The NaN of f64: a value apart from every finite number of the model.
\* No arithmetic or order comparison is applied to it; partial_cmp tests it.
NaN == 0 - (2 ^ 30)

\* ------------------------------------------------------------------- state
VARIABLES
    debug_build,     \* TRUE when debug_assert! is compiled in
    pc,              \* position of the program
    sorted_numbers,  \* get_quantile's first argument
    q,               \* get_quantile's second argument
    qret,            \* get_quantile's return value
    baseline_file,   \* main: the file named BASELINE
    target_file,     \* main: the file named TARGET
    iterations,      \* Cli.iterations / simulate's iterations
    baseline,        \* the sorted baseline sample
    target,          \* the sorted target sample
    results,         \* simulate: the local vector results
    resampling_vec,  \* simulate: the bootstrap replicate
    iter,            \* simulate: iterations of the outer loop completed
    ei,              \* simulate: position in the estimator list (from 1)
    ret,             \* simulate's return value
    out              \* the lines printed so far

qvars   == <<sorted_numbers, q, qret>>
simvars == <<results, resampling_vec, iter, ei, ret>>
vars == <<debug_build, pc, sorted_numbers, q, qret, baseline_file, target_file,
          iterations, baseline, target, results, resampling_vec, iter, ei,
          ret, out>>

\* ------------------------------------------------------------ Result values
Ok(x, ln)  == [tag |-> "Ok", val |-> x, line |-> ln]
Err(ln)    == [tag |-> "Err", val |-> 0, line |-> ln]
\* A panic (failed assert!, failed debug_assert!, index out of bounds).
Panic(ln)  == [tag |-> "Panic", val |-> 0, line |-> ln]
NoResult   == [tag |-> "None", val |-> 0, line |-> 0]

\* ---------------------------------------------------------------- main.rs
is_sorted(xs) == \A k \in 1..(Len(xs) - 1) : ~(xs[k] > xs[k + 1])

\* The index scaled by n where the code scales by n - 1.
quantile_index_Len(n, qq) == F64Mul(UsizeToF64(n), qq)

quantile_index(n, qq) == F64Mul(UsizeToF64(n - 1), qq)

\* get_quantile with the two interpolation weights exchanged.
get_quantile_SwappedWeights(xs, qq) ==
    IF Len(xs) = 0 THEN Err(75)
    ELSE IF qq < 0 \/ qq > One THEN Err(79)
    ELSE IF debug_build /\ ~is_sorted(xs) THEN Panic(85)
    ELSE IF qq = 0 THEN Ok(xs[1], 88)
    ELSE IF qq = One THEN Ok(xs[Len(xs)], 93)
    ELSE LET qi == quantile_index(Len(xs), qq)
             qf == F64Floor(qi)
             i  == F64ToUsize(qf)
         IN  IF UsizeToF64(i) = qi
             THEN IF i < Len(xs) THEN Ok(xs[i + 1], 103) ELSE Panic(103)
             ELSE LET t == F64Sub(qi, qf)
                  IN  IF ~(Len(xs) >= i + 2) THEN Panic(108)
                      ELSE Ok(F64Add(F64Mul(xs[i + 1], t),
                                     F64Mul(xs[i + 2], F64Sub(One, t))), 113)

\* get_quantile without the upper half of the range check.
get_quantile_NoUpperCheck(xs, qq) ==
    IF Len(xs) = 0 THEN Err(75)
    ELSE IF qq < 0 THEN Err(79)
    ELSE IF debug_build /\ ~is_sorted(xs) THEN Panic(85)
    ELSE IF qq = 0 THEN Ok(xs[1], 88)
    ELSE IF qq = One THEN Ok(xs[Len(xs)], 93)
    ELSE LET qi == quantile_index(Len(xs), qq)
             qf == F64Floor(qi)
             i  == F64ToUsize(qf)
         IN  IF UsizeToF64(i) = qi
             THEN IF i < Len(xs) THEN Ok(xs[i + 1], 103) ELSE Panic(103)
             ELSE LET t == F64Sub(qi, qf)
                  IN  IF ~(Len(xs) >= i + 2) THEN Panic(108)
                      ELSE Ok(F64Add(F64Mul(xs[i + 1], F64Sub(One, t)),
                                     F64Mul(xs[i + 2], t)), 113)

\* Rust indexes from 0: sorted_numbers[i] is sorted_numbers[i + 1] here.
get_quantile(xs, qq) ==
    IF Len(xs) = 0 THEN Err(75)
    ELSE IF qq < 0 \/ qq > One THEN Err(79)
    ELSE IF debug_build /\ ~is_sorted(xs) THEN Panic(85)
    ELSE IF qq = 0 THEN Ok(xs[1], 88)
    ELSE IF qq = One THEN Ok(xs[Len(xs)], 93)
    ELSE LET qi == quantile_index(Len(xs), qq)
             qf == F64Floor(qi)
             i  == F64ToUsize(qf)
         IN  IF UsizeToF64(i) = qi
             THEN IF i < Len(xs) THEN Ok(xs[i + 1], 103) ELSE Panic(103)
             ELSE LET t == F64Sub(qi, qf)
                  IN  IF ~(Len(xs) >= i + 2) THEN Panic(108)
                      ELSE Ok(F64Add(F64Mul(xs[i + 1], F64Sub(One, t)),
                                     F64Mul(xs[i + 2], t)), 113)

\* ------------------------------------------------- inputs of get_quantile
Values == {UsizeToF64(v) : v \in 0..MaxVal}

RECURSIVE SortedSeqs(_)
\* The ascending sequences of length n over Values.
SortedSeqs(n) ==
    IF n = 0 THEN {<<>>}
    ELSE {Append(s, v) : s \in SortedSeqs(n - 1), v \in Values} \cap
         {s \in [1..n -> Values] : is_sorted(s)}

Samples == UNION {SortedSeqs(n) : n \in 0..MaxLen}

\* The quantile parameters tried: the eighths from -1/8 to 9/8, the
\* parameters main uses, the two smallest positive ones and the largest
\* below 1.
QSet == {(k * One) \div 8 : k \in (0 - 1)..9}
        \cup {F64Lit(9, 10), F64Lit(95, 100), F64Lit(99, 100)}
        \cup {One - 2, 1, 2}

\* simulate's return value: Ok(list of EstimatorResult) or Err.
NoReturn == [tag |-> "None", results |-> <<>>]
SimOk(rs) == [tag |-> "Ok", results |-> rs]
SimErr    == [tag |-> "Err", results |-> <<>>]
NoFile    == [readable |-> FALSE, numbers |-> <<>>]

\* The state of main and simulate before either has started.
Idle ==
    /\ baseline_file = NoFile
    /\ target_file = NoFile
    /\ iterations = 0
    /\ baseline = <<>>
    /\ target = <<>>
    /\ results = <<>>
    /\ resampling_vec = <<>>
    /\ iter = 0
    /\ ei = 1
    /\ ret = NoReturn
    /\ out = <<>>

InitQ ==
    /\ debug_build \in BOOLEAN
    /\ pc = "gq_call"
    /\ sorted_numbers \in Samples
    /\ q \in QSet
    /\ qret = NoResult
    /\ Idle

\* One call get_quantile(sorted_numbers, q).
GetQuantileCall ==
    /\ pc = "gq_call"
    /\ qret' = get_quantile(sorted_numbers, q)
    /\ pc' = "gq_done"
    /\ UNCHANGED <<debug_build, sorted_numbers, q, baseline_file, target_file,
                   iterations, baseline, target, simvars, out>>

NextQ == GetQuantileCall

SpecQ == InitQ /\ [][NextQ]_vars

\* ------------------------------------------------ properties of get_quantile
QDone == pc = "gq_done"
QInRange == 0 <= q /\ q <= One

\* The value the design gives for a non-empty sample s and qq in [0,1],
\* from idx = (n-1)*qq in f64.
RefQuantile(s, qq) ==
    LET n   == Len(s)
        idx == F64Round((n - 1) * qq, 1)
        i   == idx \div One
        t   == idx - i * One
    IN  CASE qq = 0 -> s[1]
          [] qq = One -> s[n]
          [] qq # 0 /\ qq # One /\ idx % One = 0 -> s[i + 1]
          [] OTHER -> F64Round(F64Round(s[i + 1] * F64Round(One - t, 1), One)
                               + F64Round(s[i + 2] * t, One), 1)

C3_ErrorIffInvalid ==
    QDone =>
        /\ (Len(sorted_numbers) = 0 \/ q < 0 \/ q > One) => qret.tag = "Err"
        /\ (Len(sorted_numbers) > 0 /\ QInRange) => qret.tag = "Ok"

\* A non-empty sample with q above 1 was refused.
C3_Witness ==
    /\ QDone
    /\ Len(sorted_numbers) > 0
    /\ q > One
    /\ qret = Err(79)

\* C4: for a fixed non-empty sorted sample and q1 < q2 in [0,1],
\* get_quantile(s, q1) <= get_quantile(s, q2).
C4_Monotone ==
    (QDone /\ Len(sorted_numbers) > 0 /\ QInRange) =>
        \A q2 \in QSet :
            (q < q2 /\ q2 <= One)
                => qret.val <= get_quantile(sorted_numbers, q2).val

\* C5: get_quantile([v], q) = v for every q in [0,1], and the interpolation
\* (line 113) is not what returns it.
C5_Singleton ==
    (QDone /\ Len(sorted_numbers) = 1 /\ QInRange)
        => (qret.tag = "Ok" /\ qret.val = sorted_numbers[1] /\ qret.line < 106)

\* A singleton with q strictly inside (0,1) returned its element.
C5_Witness ==
    /\ QDone
    /\ Len(sorted_numbers) = 1
    /\ 0 < q /\ q < One
    /\ qret = Ok(sorted_numbers[1], 103)

\* C10: when get_quantile reaches the interpolation (past line 104), the
\* assertion len >= i + 2 holds and both reads are inside the sample.
C10_InterpolationInBounds ==
    (QDone /\ qret.line > 104) =>
        /\ qret.tag = "Ok"
        /\ F64ToUsize(F64Floor(quantile_index(Len(sorted_numbers), q))) + 2
               <= Len(sorted_numbers)

\* The interpolation ran with the largest q below 1.
C10_Witness ==
    /\ QDone
    /\ q = One - 2
    /\ Len(sorted_numbers) >= 2
    /\ qret.tag = "Ok"
    /\ qret.line = 113

\* ------------------------------------------------- the estimators of main
RECURSIVE Sum(_)
\* xs.iter().sum::<f64>(): the left fold of + from 0.0.
Sum(xs) ==
    IF Len(xs) = 0 THEN 0
    ELSE F64Add(Sum(SubSeq(xs, 1, Len(xs) - 1)), xs[Len(xs)])

\* The closure of "avg": sum / len, which is 0.0 / 0.0 = NaN on no numbers.
avg(xs) ==
    IF Len(xs) = 0 THEN Ok(NaN, 212)
    ELSE Ok(F64Div(Sum(xs), UsizeToF64(Len(xs))), 212)

\* The vector estimators of main, in its order.
Estimators ==
    << [name |-> "avg", quantile |-> FALSE, q |-> 0],
       [name |-> "min", quantile |-> TRUE,  q |-> 0],
       [name |-> "p50", quantile |-> TRUE,  q |-> F64Lit(5, 10)],
       [name |-> "p75", quantile |-> TRUE,  q |-> F64Lit(75, 100)],
       [name |-> "p90", quantile |-> TRUE,  q |-> F64Lit(9, 10)],
       [name |-> "p95", quantile |-> TRUE,  q |-> F64Lit(95, 100)],
       [name |-> "p99", quantile |-> TRUE,  q |-> F64Lit(99, 100)],
       [name |-> "max", quantile |-> TRUE,  q |-> One] >>

\* (est.func)(xs).
EstFunc(est, xs) == IF est.quantile THEN get_quantile(xs, est.q) ELSE avg(xs)

\* sort_by(|a, b| a.partial_cmp(b).unwrap()) on numbers that are not NaN.
Sort(xs) == SortSeq(xs, LAMBDA a, b : a < b)

\* f64::partial_cmp.
partial_cmp(a, b) ==
    IF a = NaN \/ b = NaN THEN "None"
    ELSE IF a < b THEN "Less"
    ELSE IF a > b THEN "Greater"
    ELSE "Equal"

\* ---------------------------------------------------------------- simulate
\* The EstimatorResult pushed for est (lines 155-162).
NewResult(est, fb, ta) ==
    [name |-> est.name,
     full_baseline_estimator |-> fb,
     target_estimator |-> ta,
     sim_count |-> 0,
     target_lt_sim_count |-> 0,
     target_gt_sim_count |-> 0]

\* Tally that leaves sim_count alone.
Tally_NoCount(res, ord) ==
    [res EXCEPT
        !.target_lt_sim_count = IF ord = "Less" THEN @ + 1 ELSE @,
        !.target_gt_sim_count = IF ord = "Greater" THEN @ + 1 ELSE @]

\* Tally that counts a tie as greater.
Tally_TieIsGreater(res, ord) ==
    [res EXCEPT
        !.sim_count = @ + 1,
        !.target_lt_sim_count = IF ord = "Less" THEN @ + 1 ELSE @,
        !.target_gt_sim_count = IF ord # "Less" THEN @ + 1 ELSE @]

\* Lines 182-196: res after one replicate whose estimator value compares as
\* ord to res.target_estimator.
Tally(res, ord) ==
    [res EXCEPT
        !.sim_count = @ + 1,
        !.target_lt_sim_count = IF ord = "Less" THEN @ + 1 ELSE @,
        !.target_gt_sim_count = IF ord = "Greater" THEN @ + 1 ELSE @]

\* Draw that takes the values from target where the code takes them from
\* baseline.
Draw_FromTarget(bl, idx) ==
    [k \in 1..Len(idx) |-> target[(idx[k] % Len(target)) + 1]]

\* Lines 173-176: the values drawn at the indices idx (from 0) of baseline.
Draw(bl, idx) == [k \in 1..Len(idx) |-> bl[idx[k] + 1]]

\* Line 148, on entry.
SimEnter ==
    /\ pc = "sim_call"
    /\ pc' = IF debug_build /\ ~is_sorted(baseline) THEN "panic" ELSE "sim_init"
    /\ results' = <<>>
    /\ ei' = 1
    /\ UNCHANGED <<debug_build, qvars, baseline_file, target_file, iterations,
                   baseline, target, resampling_vec, iter, ret, out>>

\* SimInitEst that skips an estimator whose call failed and goes on.
SimInitEst_SkipFailed ==
    /\ pc = "sim_init"
    /\ LET est == Estimators[ei]
           fb  == EstFunc(est, baseline)
           ta  == EstFunc(est, target)
       IN  IF fb.tag = "Panic" \/ (fb.tag = "Ok" /\ ta.tag = "Panic")
           THEN /\ pc' = "panic"
                /\ UNCHANGED <<results, ei, ret, resampling_vec, iter>>
           ELSE /\ results' = IF fb.tag = "Err" \/ ta.tag = "Err"
                              THEN results
                              ELSE Append(results, NewResult(est, fb.val, ta.val))
                /\ IF ei < Len(Estimators)
                   THEN /\ ei' = ei + 1
                        /\ pc' = "sim_init"
                        /\ UNCHANGED <<resampling_vec, iter>>
                   ELSE /\ ei' = 1
                        /\ pc' = "sim_loop"
                        /\ resampling_vec' = <<>>
                        /\ iter' = 0
                /\ UNCHANGED ret
    /\ UNCHANGED <<debug_build, qvars, baseline_file, target_file, iterations,
                   baseline, target, out>>

\* Lines 152-164: one turn of the loop that builds results; after the last
\* estimator, lines 166-169.
SimInitEst ==
    /\ pc = "sim_init"
    /\ LET est == Estimators[ei]
           fb  == EstFunc(est, baseline)
           ta  == EstFunc(est, target)
       IN  IF fb.tag = "Panic" \/ (fb.tag = "Ok" /\ ta.tag = "Panic")
           THEN /\ pc' = "panic"
                /\ UNCHANGED <<results, ei, ret, resampling_vec, iter>>
           ELSE IF fb.tag = "Err" \/ ta.tag = "Err"
           THEN /\ pc' = "sim_return"
                /\ ret' = SimErr
                /\ UNCHANGED <<results, ei, resampling_vec, iter>>
           ELSE /\ results' = Append(results, NewResult(est, fb.val, ta.val))
                /\ IF ei < Len(Estimators)
                   THEN /\ ei' = ei + 1
                        /\ pc' = "sim_init"
                        /\ UNCHANGED <<resampling_vec, iter>>
                   ELSE /\ ei' = 1
                        /\ pc' = "sim_loop"
                        /\ resampling_vec' = <<>>
                        /\ iter' = 0
                /\ UNCHANGED ret
    /\ UNCHANGED <<debug_build, qvars, baseline_file, target_file, iterations,
                   baseline, target, out>>

\* Lines 171-177: the replicate of one iteration, drawn and sorted.
SimResample ==
    /\ pc = "sim_loop"
    /\ iter < iterations
    /\ IF Len(target) > 0 /\ Len(baseline) = 0
       THEN /\ pc' = "panic"
            /\ UNCHANGED <<resampling_vec, ei>>
       ELSE \E idx \in [1..Len(target) -> 0..(Len(baseline) - 1)] :
                /\ resampling_vec' = Sort(Draw(baseline, idx))
                /\ ei' = 1
                /\ pc' = "sim_eval"
    /\ UNCHANGED <<debug_build, qvars, baseline_file, target_file, iterations,
                   baseline, target, results, iter, ret, out>>

\* Lines 179-197: one estimator on the replicate.
SimEvalEst ==
    /\ pc = "sim_eval"
    /\ LET est     == Estimators[ei]
           sim_val == EstFunc(est, resampling_vec)
           ord     == partial_cmp(results[ei].target_estimator, sim_val.val)
       IN  IF sim_val.tag = "Err"
           THEN /\ pc' = "sim_return"
                /\ ret' = SimErr
                /\ UNCHANGED <<results, ei, iter>>
           ELSE IF sim_val.tag = "Panic" \/ ord = "None"
           THEN /\ pc' = "panic"
                /\ UNCHANGED <<results, ei, iter, ret>>
           ELSE /\ results' = [results EXCEPT ![ei] = Tally(@, ord)]
                /\ IF ei < Len(results)
                   THEN /\ ei' = ei + 1
                        /\ pc' = "sim_eval"
                        /\ UNCHANGED iter
                   ELSE /\ ei' = 1
                        /\ pc' = "sim_loop"
                        /\ iter' = iter + 1
                /\ UNCHANGED ret
    /\ UNCHANGED <<debug_build, qvars, baseline_file, target_file, iterations,
                   baseline, target, resampling_vec, out>>

\* Line 200.
SimReturn ==
    /\ pc = "sim_loop"
    /\ ~(iter < iterations)
    /\ ret' = SimOk(results)
    /\ pc' = "sim_return"
    /\ UNCHANGED <<debug_build, qvars, baseline_file, target_file, iterations,
                   baseline, target, results, resampling_vec, iter, ei, out>>

\* -------------------------------------------------------- inputs of simulate
SimValues == {UsizeToF64(v) : v \in 1..SimMaxVal}

\* The file contents: up to SimMaxLen numbers in any order.
RawSeqs == UNION {[1..n -> SimValues] : n \in 0..SimMaxLen}

\* The samples main passes on: sorted by read_and_sort_numbers.
SimSamples == {Sort(s) : s \in RawSeqs}

\* simulate called on any two sorted samples, empty ones included, and any
\* iteration count an i32 option can carry (negative, zero, positive).
InitSim ==
    /\ debug_build \in BOOLEAN
    /\ pc = "sim_call"
    /\ sorted_numbers = <<>>
    /\ q = 0
    /\ qret = NoResult
    /\ baseline_file = NoFile
    /\ target_file = NoFile
    /\ iterations \in (0 - 1)..MaxIter
    /\ baseline \in SimSamples
    /\ target \in SimSamples
    /\ results = <<>>
    /\ resampling_vec = <<>>
    /\ iter = 0
    /\ ei = 1
    /\ ret = NoReturn
    /\ out = <<>>

NextSim == SimEnter \/ SimInitEst \/ SimResample \/ SimEvalEst \/ SimReturn

SpecSim == InitSim /\ [][NextSim]_vars

\* ---------------------------------------------------- properties of simulate
SimReturnedOk == pc = "sim_return" /\ ret.tag = "Ok"

\* C1: after simulate returns successfully with iterations > 0, a non-empty
\* baseline and a non-empty target, every returned result has
\* sim_count = iterations and
\* target_gt_sim_count + target_lt_sim_count <= iterations.
C1_CountConservation ==
    (SimReturnedOk /\ iterations > 0 /\ Len(baseline) > 0 /\ Len(target) > 0)
        => \A k \in 1..Len(ret.results) :
               /\ ret.results[k].sim_count = iterations
               /\ ret.results[k].target_gt_sim_count
                    + ret.results[k].target_lt_sim_count <= iterations

\* simulate returned all eight results after MaxIter iterations, one of
\* them with a tie among its comparisons.
C1_Witness ==
    /\ SimReturnedOk
    /\ iterations = MaxIter
    /\ Len(ret.results) = Len(Estimators)
    /\ \E k \in 1..Len(ret.results) :
           /\ ret.results[k].target_gt_sim_count > 0
           /\ ret.results[k].target_gt_sim_count
                + ret.results[k].target_lt_sim_count < iterations

\* C6: every element of the replicate resampling_vec is an element of
\* baseline, in every iteration and for every draw.
C6_ResamplingClosure ==
    \A k \in 1..Len(resampling_vec) :
        \E j \in 1..Len(baseline) : resampling_vec[k] = baseline[j]

\* A replicate that took the larger of two different baseline values twice.
C6_Witness ==
    /\ pc = "sim_eval"
    /\ Len(baseline) = 2
    /\ baseline[1] < baseline[2]
    /\ resampling_vec = <<baseline[2], baseline[2]>>

\* The estimator call simulate is about to make returns an error.
CurrentCallFails ==
    \/ /\ pc = "sim_init"
       /\ \/ EstFunc(Estimators[ei], baseline).tag = "Err"
          \/ EstFunc(Estimators[ei], target).tag = "Err"
    \/ /\ pc = "sim_eval"
       /\ EstFunc(Estimators[ei], resampling_vec).tag = "Err"

C9_TallyStep ==
    [][ (pc = "sim_eval" /\ pc' \in {"sim_eval", "sim_loop"}) =>
          LET tv  == results[ei].target_estimator
              sv  == EstFunc(Estimators[ei], resampling_vec).val
              old == results[ei]
              new == results'[ei]
          IN  /\ new.sim_count = old.sim_count + 1
              /\ new.target_gt_sim_count - old.target_gt_sim_count
                    = (IF tv > sv THEN 1 ELSE 0)
              /\ new.target_lt_sim_count - old.target_lt_sim_count
                    = (IF tv < sv THEN 1 ELSE 0)
              /\ new.target_gt_sim_count + new.target_lt_sim_count
                    - old.target_gt_sim_count - old.target_lt_sim_count <= 1
              /\ new.name = old.name
              /\ new.target_estimator = old.target_estimator
              /\ new.full_baseline_estimator = old.full_baseline_estimator
              /\ Len(results') = Len(results)
              /\ \A j \in 1..Len(results) : j # ei => results'[j] = results[j]
      ]_vars

\* Two iterations have counted a greater, a less and a tie.
C9_Witness ==
    /\ pc = "sim_loop"
    /\ iter = 2
    /\ \E a, b, c \in 1..Len(results) :
           /\ results[a].target_gt_sim_count >= 1
           /\ results[b].target_lt_sim_count >= 1
           /\ results[c].sim_count = 2
           /\ results[c].target_gt_sim_count + results[c].target_lt_sim_count < 2

\* -------------------------------------------------------------------- main
\* A printed line: its kind, the name it carries and the number formatted
\* into it ("header" and "blank" lines carry no number).
TextLine(kind, name) == [kind |-> kind, name |-> name, val |-> 0, cmp |-> <<>>]
CountLine(n)         == [kind |-> "count", name |-> "Count", val |-> n, cmp |-> <<>>]
StatLine(name, v)    == [kind |-> "stat", name |-> name, val |-> v, cmp |-> <<>>]

\* read_numbers then sort: an unreadable file or a line that is no number
\* is an error.
read_and_sort_numbers(file) ==
    IF ~file.readable THEN [tag |-> "Err", numbers |-> <<>>]
    ELSE [tag |-> "Ok", numbers |-> Sort(file.numbers)]

RECURSIVE SummarizeFrom(_, _)
\* Lines 119-122 from estimator k on: the lines printed, and how the loop
\* ended ("Ok", or the "Err"/"Panic" of the first estimator that failed).
SummarizeFrom(xs, k) ==
    IF k > Len(Estimators) THEN [tag |-> "Ok", lines |-> <<>>]
    ELSE LET v == EstFunc(Estimators[k], xs)
         IN  IF v.tag # "Ok" THEN [tag |-> v.tag, lines |-> <<>>]
             ELSE LET rest == SummarizeFrom(xs, k + 1)
                  IN  [tag |-> rest.tag,
                       lines |-> <<StatLine(Estimators[k].name, v.val)>>
                                     \o rest.lines]

summarize_numbers(xs) ==
    LET r == SummarizeFrom(xs, 1)
    IN  [tag |-> r.tag, lines |-> <<CountLine(Len(xs))>> \o r.lines]

\* `c as f64 / n as f64` for two i32 counters; 0.0 / 0.0 is NaN.
Ratio(c, n) == IF n = 0 THEN NaN ELSE F64Div(UsizeToF64(c), UsizeToF64(n))

\* Lines 255-267: the line printed for one result; both branches print the
\* same ratio.
ComparisonLine(result) ==
    IF result.target_estimator > result.full_baseline_estimator
    THEN [kind |-> "cmp", name |-> result.name,
          val |-> Ratio(result.target_gt_sim_count, result.sim_count),
          cmp |-> <<result.full_baseline_estimator, result.target_estimator>>]
    ELSE [kind |-> "cmp", name |-> result.name,
          val |-> Ratio(result.target_gt_sim_count, result.sim_count),
          cmp |-> <<result.full_baseline_estimator, result.target_estimator>>]

\* Line 206.
MainReadBaseline ==
    /\ pc = "main_read_baseline"
    /\ LET r == read_and_sort_numbers(baseline_file)
       IN  IF r.tag = "Err"
           THEN pc' = "exit_err" /\ UNCHANGED baseline
           ELSE pc' = "main_read_target" /\ baseline' = r.numbers
    /\ UNCHANGED <<debug_build, qvars, baseline_file, target_file, iterations,
                   target, simvars, out>>

\* Line 207.
MainReadTarget ==
    /\ pc = "main_read_target"
    /\ LET r == read_and_sort_numbers(target_file)
       IN  IF r.tag = "Err"
           THEN pc' = "exit_err" /\ UNCHANGED target
           ELSE pc' = "main_summary_baseline" /\ target' = r.numbers
    /\ UNCHANGED <<debug_build, qvars, baseline_file, target_file, iterations,
                   baseline, simvars, out>>

\* Lines 244-246.
MainSummarizeBaseline ==
    /\ pc = "main_summary_baseline"
    /\ LET r == summarize_numbers(baseline)
           h == <<TextLine("header", "=== Summary (baseline) ===")>>
       IN  IF r.tag = "Ok"
           THEN /\ out' = out \o h \o r.lines \o <<TextLine("blank", "")>>
                /\ pc' = "main_summary_target"
           ELSE /\ out' = out \o h \o r.lines
                /\ pc' = IF r.tag = "Err" THEN "exit_err" ELSE "panic"
    /\ UNCHANGED <<debug_build, qvars, baseline_file, target_file, iterations,
                   baseline, target, simvars>>

\* Lines 248-250; then the call of simulate at line 252.
MainSummarizeTarget ==
    /\ pc = "main_summary_target"
    /\ LET r == summarize_numbers(target)
           h == <<TextLine("header", "=== Summary (target) ===")>>
       IN  IF r.tag = "Ok"
           THEN /\ out' = out \o h \o r.lines \o <<TextLine("blank", "")>>
                /\ pc' = "sim_call"
           ELSE /\ out' = out \o h \o r.lines
                /\ pc' = IF r.tag = "Err" THEN "exit_err" ELSE "panic"
    /\ UNCHANGED <<debug_build, qvars, baseline_file, target_file, iterations,
                   baseline, target, simvars>>

\* Lines 252-270, once simulate has returned.
MainReport ==
    /\ pc = "sim_return"
    /\ IF ret.tag = "Err"
       THEN /\ pc' = "exit_err"
            /\ UNCHANGED out
       ELSE /\ out' = out \o <<TextLine("header", "=== Comparison ===")>>
                          \o [k \in 1..Len(ret.results) |->
                                  ComparisonLine(ret.results[k])]
            /\ pc' = "exit_ok"
    /\ UNCHANGED <<debug_build, qvars, baseline_file, target_file, iterations,
                   baseline, target, simvars>>

\* The files main may be given: unreadable, or any numbers in any order.
Files == {NoFile} \cup {[readable |-> TRUE, numbers |-> s] : s \in RawSeqs}

Init ==
    /\ debug_build \in BOOLEAN
    /\ pc = "main_read_baseline"
    /\ sorted_numbers = <<>>
    /\ q = 0
    /\ qret = NoResult
    /\ baseline_file \in Files
    /\ target_file \in Files
    /\ iterations \in 0..MainMaxIter
    /\ baseline = <<>>
    /\ target = <<>>
    /\ results = <<>>
    /\ resampling_vec = <<>>
    /\ iter = 0
    /\ ei = 1
    /\ ret = NoReturn
    /\ out = <<>>

Next ==
    \/ MainReadBaseline
    \/ MainReadTarget
    \/ MainSummarizeBaseline
    \/ MainSummarizeTarget
    \/ SimEnter
    \/ SimInitEst
    \/ SimResample
    \/ SimEvalEst
    \/ SimReturn
    \/ MainReport

Spec == Init /\ [][Next]_vars

\* ---------------------------------------------------- properties of a run
\* C8: a run that ends in an error has emitted no summary line and no
\* comparison line.
C8_NoPartialReport ==
    pc = "exit_err" =>
        \A k \in 1..Len(out) : out[k].kind \notin {"count", "stat", "cmp"}

====
